---- MODULE Spec2Model ----
(***************************************************************************)
(* The DMA survey application (src/dma_survey.py, src/pages/analytics.py): *)
(* the scoring rubric, the survey form of one browser session, the         *)
(* dma_survey_results table behind the cached libsql connection, and the   *)
(* analytics queries of the results page and of the analytics page.        *)
(*                                                                         *)
(* What the model takes from the libraries the code calls:                 *)
(*  - st.cache_resource: one connection object per decorated function,    *)
(*    shared by every session of the process.  dma_survey.py and           *)
(*    pages/analytics.py each decorate a get_connection of their own, so   *)
(*    the survey/results page and the analytics page use two connections.  *)
(*  - the connection follows the DB-API: an INSERT opens a transaction if  *)
(*    none is open, statements on the connection see the transaction's     *)
(*    rows, commit() makes them durable, rollback() discards them, both    *)
(*    are no-ops without an open transaction; cursor.lastrowid is the      *)
(*    rowid of the row that cursor's INSERT wrote.                         *)
(*  - SQL leaves the order of rows with equal ORDER BY keys unspecified.   *)
(*  - CURRENT_TIMESTAMP has a resolution of one second.                    *)
(***************************************************************************)
EXTENDS Integers, Sequences, FiniteSets, TLC

VARIABLES
    committed,      \* dma_survey_results as durably stored: a sequence of rows
    pending,        \* rows INSERTed in the open transaction of the main connection
    now,            \* CURRENT_TIMESTAMP at the last INSERT, in seconds
    faultsLeft,     \* how many more store calls may raise in this behaviour
    session_state,  \* st.session_state of each browser session
    pc,             \* where each caller's script run stands
    call,           \* the locals of each caller's submit_dma_survey call
    ret,            \* what each caller's last submit_dma_survey call returned
    analytics       \* the dict the last get_dma_survey_analytics call returned

vars == << committed, pending, now, faultsLeft, session_state, pc, call, ret, analytics >>

-----------------------------------------------------------------------------
(* Bounds of the model *)

\* store faults injected in one behaviour
MaxFaults == 1
\* rows written by direct calls in SpecRepository
MaxRows == 5
\* seconds that may pass between two INSERTs
MaxElapsed == 1

-----------------------------------------------------------------------------
(* Values *)

\* Python's None and SQL's NULL; a present value v is <<v>>
None == << >>
Some(v) == << v >>

Sessions == {"s1", "s2"}
Api == "api"
Callers == Sessions \cup {Api}

Questions == 1..5
Ratings == 1..5

Beginner == "Beginner Level"
Emerging == "Emerging Level"
Progressing == "Progressing Level"
Advanced == "Advanced Level"
Expert == "Expert Level"
Levels == {Beginner, Emerging, Progressing, Advanced, Expert}

Min(a, b) == IF a <= b THEN a ELSE b

RECURSIVE SumSeq(_)
SumSeq(s) == IF s = << >> THEN 0 ELSE Head(s) + SumSeq(Tail(s))

Range(s) == {s[i] : i \in DOMAIN s}

-----------------------------------------------------------------------------
(* The scoring step of submit_dma_survey *)

\* total_score = sum(scores.values())
TotalScore(scores) == SumSeq(scores)

MaturityLevelStrict(total_score) ==
    IF total_score < 5 THEN Beginner
    ELSE IF total_score < 10 THEN Emerging
    ELSE IF total_score < 15 THEN Progressing
    ELSE IF total_score < 20 THEN Advanced
    ELSE Expert

\* the if/elif chain over total_score
MaturityLevel(total_score) ==
    IF total_score <= 5 THEN Beginner
    ELSE IF total_score <= 10 THEN Emerging
    ELSE IF total_score <= 15 THEN Progressing
    ELSE IF total_score <= 20 THEN Advanced
    ELSE Expert

-----------------------------------------------------------------------------
(* The dma_survey_results table *)

\* what a statement on the main connection reads: the stored rows and the rows
\* of the connection's open transaction
View == committed \o pending

\* survey_id INTEGER PRIMARY KEY AUTOINCREMENT: one more than the largest rowid
\* the table has held; no row is ever deleted, so that is the largest one in it
NextRowId(view) ==
    LET ids == {view[i].survey_id : i \in DOMAIN view}
    IN  IF ids = {} THEN 1 ELSE 1 + CHOOSE m \in ids : \A k \in ids : k <= m

\* name TEXT NOT NULL, organisation TEXT NOT NULL
NotNullOk(args) == args.name # None /\ args.organisation # None

CheckOkNone(scores) == TRUE

CheckOkUpper(scores) == \A i \in Questions : scores[i] <= 5

\* CHECK(question_i_score BETWEEN 1 AND 5) on each of the five score columns
CheckOk(scores) == \A i \in Questions : scores[i] >= 1 /\ scores[i] <= 5

\* address = address if address else ""
OrEmpty(v) == IF v = None \/ v = Some("") THEN "" ELSE v[1]

\* the row the INSERT statement writes, created_at DEFAULT CURRENT_TIMESTAMP
NewRow(view, args, total_score, maturity_level, t) ==
    [ survey_id       |-> NextRowId(view),
      name            |-> args.name[1],
      organisation    |-> args.organisation[1],
      address         |-> OrEmpty(args.address),
      email           |-> OrEmpty(args.email),
      contact_number  |-> OrEmpty(args.contact_number),
      question_scores |-> args.scores,
      total_score     |-> total_score,
      maturity_level  |-> maturity_level,
      created_at      |-> t ]

-----------------------------------------------------------------------------
(* The three queries of get_dma_survey_analytics *)

\* every order of the values of P (a set of [key, val]) with keys descending;
\* values with equal keys come in any order
RECURSIVE DescOrders(_)
DescOrders(P) ==
    IF P = {} THEN { << >> }
    ELSE LET m == CHOOSE k \in {p.key : p \in P} : \A q \in P : q.key <= k
         IN  UNION { { << p.val >> \o t : t \in DescOrders(P \ {p}) } :
                     p \in {q \in P : q.key = m} }

\* round(AVG(column), 2) in hundredths; with fewer than 8 rows no average lies
\* halfway between two hundredths, so the rounding mode does not show
Avg2(values) == (200 * SumSeq(values) + Len(values)) \div (2 * Len(values))

MinOf(values) == CHOOSE m \in Range(values) : \A k \in Range(values) : m <= k
MaxOf(values) == CHOOSE m \in Range(values) : \A k \in Range(values) : k <= m

\* the total_score column and the question_q_score column
TotalScores(view) == [i \in DOMAIN view |-> view[i].total_score]
QuestionScores(view, q) == [i \in DOMAIN view |-> view[i].question_scores[q]]

\* SELECT COUNT(*), AVG(total_score), MIN(total_score), MAX(total_score),
\* AVG(question_1_score), ..., AVG(question_5_score): the aggregates of no rows
\* are NULL, COUNT(*) is 0
StatsQuery(view) ==
    LET Agg(F(_), values) == IF view = << >> THEN None ELSE Some(F(values))
    IN  << Len(view),
           Agg(Avg2, TotalScores(view)),
           Agg(MinOf, TotalScores(view)),
           Agg(MaxOf, TotalScores(view)),
           Agg(Avg2, QuestionScores(view, 1)),
           Agg(Avg2, QuestionScores(view, 2)),
           Agg(Avg2, QuestionScores(view, 3)),
           Agg(Avg2, QuestionScores(view, 4)),
           Agg(Avg2, QuestionScores(view, 5)) >>

CountLevel(view, l) == Cardinality({i \in DOMAIN view : view[i].maturity_level = l})

MaturityQueryAllLevels(view) ==
    DescOrders({ [key |-> CountLevel(view, l),
                  val |-> [level |-> l, count |-> CountLevel(view, l)]] :
                 l \in Levels })

\* SELECT maturity_level, COUNT(*) ... GROUP BY maturity_level ORDER BY COUNT(*) DESC:
\* the possible results
MaturityQuery(view) ==
    DescOrders({ [key |-> CountLevel(view, l),
                  val |-> [level |-> l, count |-> CountLevel(view, l)]] :
                 l \in {view[i].maturity_level : i \in DOMAIN view} })

\* SELECT name, organisation, total_score, maturity_level, created_at
\* ... ORDER BY created_at DESC: the possible results
AllQuery(view) ==
    LET orders == DescOrders({ [key |-> view[i].created_at, val |-> view[i]] :
                               i \in DOMAIN view })
        Entry(r) == [ name |-> r.name, organisation |-> r.organisation,
                      total_score |-> r.total_score,
                      maturity_level |-> r.maturity_level,
                      created_at |-> r.created_at ]
    IN  { [i \in DOMAIN o |-> Entry(o[i])] : o \in orders }

\* round(x, 2) if x else 0
RoundOrZero(x) == IF x = None \/ x = Some(0) THEN Some(0) ELSE x

\* the dict of the try branch
AnalyticsDict(who, stats, maturity_dist, all_responses) ==
    [ who   |-> who,
      ok    |-> TRUE,
      stats |-> [ total_responses |-> stats[1],
                  avg_score |-> RoundOrZero(stats[2]),
                  min_score |-> stats[3],
                  max_score |-> stats[4],
                  question_averages |->
                      [i \in Questions |-> RoundOrZero(stats[4 + i])] ],
      maturity_distribution |-> maturity_dist,
      recent_responses |-> all_responses ]

\* the dict of the except branch
AnalyticsDefault(who) ==
    [ who   |-> who,
      ok    |-> FALSE,
      stats |-> [ total_responses |-> 0,
                  avg_score |-> Some(0),
                  min_score |-> Some(0),
                  max_score |-> Some(0),
                  question_averages |-> << >> ],
      maturity_distribution |-> << >>,
      recent_responses |-> << >> ]

\* no get_dma_survey_analytics call has just returned
NoAnalytics == [AnalyticsDefault("nobody") EXCEPT !.ok = TRUE]

-----------------------------------------------------------------------------
(* Sessions and calls *)

\* st.session_state after the initialisation at the top of the script, with
\* the organisation text input (key "org") and the qi_selected keys (a key
\* that is absent is None); st_error is the st.error box the last run drew
NewSession ==
    [ page             |-> "survey",
      survey_submitted |-> FALSE,
      user_score       |-> None,
      user_level       |-> None,
      user_org         |-> None,
      org              |-> "",
      selected         |-> [i \in Questions |-> None],
      st_error         |-> "" ]

Arguments(name, organisation, address, email, contact_number, scores) ==
    [ name |-> name, organisation |-> organisation, address |-> address,
      email |-> email, contact_number |-> contact_number, scores |-> scores ]

\* the locals of a submit_dma_survey call; rows_before records the number of
\* stored rows when the call was made, attempts the conn.execute calls of the
\* INSERT statement it has made
NewCall(args, rows_before) ==
    [ args |-> args, total_score |-> None, maturity_level |-> None,
      lastrowid |-> None, rows_before |-> rows_before, attempts |-> 0 ]

NoCall ==
    [ args |-> Arguments(None, None, None, None, None, << >>),
      total_score |-> None, maturity_level |-> None,
      lastrowid |-> None, rows_before |-> 0, attempts |-> 0 ]

\* the triple submit_dma_survey returns
Returned(survey_id, total_score, maturity_level) ==
    [ returned |-> TRUE, survey_id |-> survey_id, total_score |-> total_score,
      maturity_level |-> maturity_level ]

Failure == Returned(None, None, None)

NotReturned == [Failure EXCEPT !.returned = FALSE]

\* if page == "survey" and not survey_submitted: show_survey_form()
OnSurveyPage(s) ==
    session_state[s].page = "survey" /\ ~session_state[s].survey_submitted

\* elif page == "results" or survey_submitted: show_results_page()
OnResultsPage(s) ==
    /\ ~OnSurveyPage(s)
    /\ session_state[s].page = "results" \/ session_state[s].survey_submitted

-----------------------------------------------------------------------------
(* create_dma_survey_table, called at the top of every run of dma_survey.py *)

CreateOutcomes == IF faultsLeft > 0 THEN BOOLEAN ELSE {TRUE}

CreateTableTruncating(ok) ==
    /\ committed' = << >>
    /\ pending' = IF ok THEN << >> ELSE pending
    /\ faultsLeft' = IF ok THEN faultsLeft ELSE faultsLeft - 1

\* CREATE TABLE IF NOT EXISTS on the existing table, then conn.commit(); when
\* the store raises, st.error and return False, and the run goes on
create_dma_survey_table(ok) ==
    /\ committed' = IF ok THEN committed \o pending ELSE committed
    /\ pending' = IF ok THEN << >> ELSE pending
    /\ faultsLeft' = IF ok THEN faultsLeft ELSE faultsLeft - 1

-----------------------------------------------------------------------------
(* show_survey_form *)

\* a run in which the organisation text input has a new value
TypeOrganisation(s, o) ==
    /\ pc[s] = "ready" /\ OnSurveyPage(s)
    /\ \E ok \in CreateOutcomes : create_dma_survey_table(ok)
    /\ session_state' = [session_state EXCEPT ![s].org = o, ![s].st_error = ""]
    /\ analytics' = NoAnalytics
    /\ UNCHANGED << now, pc, call, ret >>

\* a run in which the button of rating v of question i returns True
ClickRating(s, i, v) ==
    /\ pc[s] = "ready" /\ OnSurveyPage(s)
    /\ \E ok \in CreateOutcomes : create_dma_survey_table(ok)
    /\ session_state' = [session_state EXCEPT ![s].selected[i] = Some(v),
                                               ![s].st_error = ""]
    /\ analytics' = NoAnalytics
    /\ UNCHANGED << now, pc, call, ret >>

UnansweredNone(ss) == {}

\* unanswered_questions: the questions without a qi_selected key
UnansweredQuestions(ss) == {i \in Questions : ss.selected[i] = None}

\* final_scores: one entry for each question with a qi_selected key
FinalScores(ss) ==
    [i \in {k \in Questions : ss.selected[k] # None} |-> ss.selected[i][1]]

\* a run in which the Submit Survey button returns True
PressSubmit(s) ==
    LET ss == session_state[s]
    IN  /\ pc[s] = "ready" /\ OnSurveyPage(s)
        /\ \E ok \in CreateOutcomes : create_dma_survey_table(ok)
        /\ IF ss.org = ""
           THEN /\ session_state' = [session_state EXCEPT ![s].st_error =
                       "Please fill in all required fields (Organisation)"]
                /\ UNCHANGED << pc, call, ret >>
           ELSE IF UnansweredQuestions(ss) # {}
           THEN /\ session_state' = [session_state EXCEPT ![s].st_error =
                       "Please answer all questions"]
                /\ UNCHANGED << pc, call, ret >>
           ELSE /\ session_state' = [session_state EXCEPT ![s].st_error = ""]
                /\ call' = [call EXCEPT ![s] = NewCall(
                       Arguments(Some(""), Some(ss.org), Some(""), Some(""),
                                 Some(""), FinalScores(ss)),
                       Len(committed'))]
                /\ ret' = [ret EXCEPT ![s] = NotReturned]
                /\ pc' = [pc EXCEPT ![s] = "insert"]
        /\ analytics' = NoAnalytics
        /\ UNCHANGED now

-----------------------------------------------------------------------------
(* submit_dma_survey *)

\* a direct call of submit_dma_survey(name, organisation, ..., scores)
DirectCall(args) ==
    /\ pc[Api] = "ready"
    /\ call' = [call EXCEPT ![Api] = NewCall(args, Len(committed))]
    /\ ret' = [ret EXCEPT ![Api] = NotReturned]
    /\ pc' = [pc EXCEPT ![Api] = "insert"]
    /\ analytics' = NoAnalytics
    /\ UNCHANGED << committed, pending, now, faultsLeft, session_state >>

\* the scoring step alone: total_score and maturity_level
Scoring(c) ==
    /\ pc[c] = "insert" /\ call[c].total_score = None
    /\ call' = [call EXCEPT
                  ![c].total_score = Some(TotalScore(call[c].args.scores)),
                  ![c].maturity_level =
                      Some(MaturityLevel(TotalScore(call[c].args.scores)))]
    /\ UNCHANGED << committed, pending, now, faultsLeft, session_state, pc, ret,
                    analytics >>

\* from the top of the try block to the return of conn.execute: the scoring,
\* the optional fields, the INSERT, e seconds after the last one.  A statement
\* the store rejects (NOT NULL, CHECK) and a scores dict without one of the
\* keys q1..q5 raise.
Insert(c, e) ==
    LET args == call[c].args
        total_score == TotalScore(args.scores)
        maturity_level == MaturityLevel(total_score)
        row == NewRow(View, args, total_score, maturity_level, now + e)
        scored == [call EXCEPT ![c].total_score = Some(total_score),
                               ![c].maturity_level = Some(maturity_level),
                               ![c].attempts = @ + 1]
    IN  /\ pc[c] = "insert"
        /\ IF DOMAIN args.scores = Questions /\ NotNullOk(args)
              /\ CheckOk(args.scores)
           THEN /\ pending' = Append(pending, row)
                /\ now' = now + e
                /\ call' = [scored EXCEPT ![c].lastrowid = Some(row.survey_id)]
                /\ pc' = [pc EXCEPT ![c] = "executed"]
           ELSE /\ call' = scored
                /\ pc' = [pc EXCEPT ![c] = "except"]
                /\ UNCHANGED << pending, now >>
        /\ analytics' = NoAnalytics
        /\ UNCHANGED << committed, faultsLeft, session_state, ret >>

\* conn.execute raises because the store cannot be reached
InsertFault(c) ==
    /\ pc[c] = "insert" /\ faultsLeft > 0
    /\ faultsLeft' = faultsLeft - 1
    /\ call' = [call EXCEPT
                  ![c].total_score = Some(TotalScore(call[c].args.scores)),
                  ![c].maturity_level =
                      Some(MaturityLevel(TotalScore(call[c].args.scores))),
                  ![c].attempts = @ + 1]
    /\ pc' = [pc EXCEPT ![c] = "except"]
    /\ analytics' = NoAnalytics
    /\ UNCHANGED << committed, pending, now, session_state, ret >>

\* the value of cursor.lastrowid when the call returns
LastRowIdOfConnection(c) == Some(NextRowId(View) - 1)

LastRowId(c) == call[c].lastrowid

AfterSubmitAlways(s, triple) ==
    [session_state EXCEPT
        ![s].survey_submitted = TRUE,
        ![s].user_score = triple.total_score,
        ![s].user_level = triple.maturity_level,
        ![s].user_org = Some(session_state[s].org),
        ![s].page = "results"]

\* what the survey form does with the triple: on success the session moves to
\* the results page (st.rerun), else st.error
AfterSubmit(s, triple) ==
    IF triple.survey_id # None
    THEN [session_state EXCEPT
            ![s].survey_submitted = TRUE,
            ![s].user_score = triple.total_score,
            ![s].user_level = triple.maturity_level,
            ![s].user_org = Some(session_state[s].org),
            ![s].page = "results"]
    ELSE [session_state EXCEPT
            ![s].st_error = "Error submitting survey. Please try again."]

\* conn.commit() and return cursor.lastrowid, total_score, maturity_level
Commit(c) ==
    LET triple == Returned(LastRowId(c), call[c].total_score,
                           call[c].maturity_level)
    IN  /\ pc[c] = "executed"
        /\ committed' = committed \o pending
        /\ pending' = << >>
        /\ ret' = [ret EXCEPT ![c] = triple]
        /\ pc' = [pc EXCEPT ![c] = "ready"]
        /\ session_state' = IF c \in Sessions THEN AfterSubmit(c, triple)
                            ELSE session_state
        /\ analytics' = NoAnalytics
        /\ UNCHANGED << now, faultsLeft, call >>

\* conn.commit() raises: nothing is made durable, the transaction stays open
CommitFault(c) ==
    /\ pc[c] = "executed" /\ faultsLeft > 0
    /\ faultsLeft' = faultsLeft - 1
    /\ pc' = [pc EXCEPT ![c] = "except"]
    /\ analytics' = NoAnalytics
    /\ UNCHANGED << committed, pending, now, session_state, call, ret >>

\* the except branch: st.error, conn.rollback(), return None, None, None
Rollback(c) ==
    /\ pc[c] = "except"
    /\ pending' = << >>
    /\ ret' = [ret EXCEPT ![c] = Failure]
    /\ pc' = [pc EXCEPT ![c] = "ready"]
    /\ session_state' = IF c \in Sessions THEN AfterSubmit(c, Failure)
                        ELSE session_state
    /\ analytics' = NoAnalytics
    /\ UNCHANGED << committed, now, faultsLeft, call >>

-----------------------------------------------------------------------------
(* get_dma_survey_analytics *)

\* the three queries on a connection that reads view, and the dict built of them
QueryAnalytics(who, view) ==
    \E maturity_dist \in MaturityQuery(view), all_responses \in AllQuery(view) :
        analytics' = AnalyticsDict(who, StatsQuery(view), maturity_dist,
                                   all_responses)

\* a run of the results page (st.rerun after the submission, st_autorefresh
\* every 3 seconds) up to the call of get_dma_survey_analytics
AutoRefresh(s) ==
    /\ pc[s] = "ready" /\ OnResultsPage(s)
    /\ \E ok \in CreateOutcomes : create_dma_survey_table(ok)
    /\ session_state' = [session_state EXCEPT ![s].st_error = ""]
    /\ pc' = [pc EXCEPT ![s] = "analytics"]
    /\ analytics' = NoAnalytics
    /\ UNCHANGED << now, call, ret >>

\* get_dma_survey_analytics of dma_survey.py, on the main connection
Analytics(s) ==
    /\ pc[s] = "analytics"
    /\ QueryAnalytics(s, View)
    /\ pc' = [pc EXCEPT ![s] = "ready"]
    /\ UNCHANGED << committed, pending, now, faultsLeft, session_state, call, ret >>

\* one of its queries raises: st.error and the default dict
AnalyticsFault(s) ==
    /\ pc[s] = "analytics" /\ faultsLeft > 0
    /\ faultsLeft' = faultsLeft - 1
    /\ analytics' = AnalyticsDefault(s)
    /\ session_state' = [session_state EXCEPT ![s].st_error =
                            "Error getting DMA analytics"]
    /\ pc' = [pc EXCEPT ![s] = "ready"]
    /\ UNCHANGED << committed, pending, now, call, ret >>

\* a direct call of get_dma_survey_analytics of dma_survey.py
DirectAnalytics ==
    /\ pc[Api] = "ready"
    /\ QueryAnalytics(Api, View)
    /\ UNCHANGED << committed, pending, now, faultsLeft, session_state, pc, call,
                    ret >>

Viewer == "viewer"

\* a run of pages/analytics.py: get_dma_survey_analytics on the connection of
\* that page, which reads the stored rows
ViewAnalytics ==
    /\ QueryAnalytics(Viewer, committed)
    /\ UNCHANGED << committed, pending, now, faultsLeft, session_state, pc, call,
                    ret >>

ViewAnalyticsFault ==
    /\ faultsLeft > 0
    /\ faultsLeft' = faultsLeft - 1
    /\ analytics' = AnalyticsDefault(Viewer)
    /\ UNCHANGED << committed, pending, now, session_state, pc, call, ret >>

\* the locals of a get_dma_survey_analytics call: the results of the queries
\* it has made so far
AnalyticsCall == [ stats |-> None, maturity_dist |-> None, all_responses |-> None ]

\* get_dma_survey_analytics of pages/analytics.py query by query, each
\* conn.execute a statement of its own on the connection of that page, which
\* reads the rows committed at that moment.  The call is entered:
CallAnalytics(c) ==
    /\ pc[c] = "ready"
    /\ call' = [call EXCEPT ![c] = AnalyticsCall]
    /\ pc' = [pc EXCEPT ![c] = "stats_query"]
    /\ analytics' = NoAnalytics
    /\ UNCHANGED << committed, pending, now, faultsLeft, session_state, ret >>

\* stats = conn.execute(stats_query).fetchone()
StatsQueryStep(c) ==
    /\ pc[c] = "stats_query"
    /\ call' = [call EXCEPT ![c].stats = Some(StatsQuery(committed))]
    /\ pc' = [pc EXCEPT ![c] = "maturity_query"]
    /\ analytics' = NoAnalytics
    /\ UNCHANGED << committed, pending, now, faultsLeft, session_state, ret >>

\* maturity_dist = conn.execute(maturity_query).fetchall()
MaturityQueryStep(c) ==
    /\ pc[c] = "maturity_query"
    /\ \E maturity_dist \in MaturityQuery(committed) :
          call' = [call EXCEPT ![c].maturity_dist = Some(maturity_dist)]
    /\ pc' = [pc EXCEPT ![c] = "all_query"]
    /\ analytics' = NoAnalytics
    /\ UNCHANGED << committed, pending, now, faultsLeft, session_state, ret >>

\* all_responses = conn.execute(all_query).fetchall() and the return of the dict
AllQueryStep(c) ==
    /\ pc[c] = "all_query"
    /\ \E all_responses \in AllQuery(committed) :
          /\ call' = [call EXCEPT ![c].all_responses = Some(all_responses)]
          /\ analytics' = AnalyticsDict(c, call[c].stats[1],
                                        call[c].maturity_dist[1], all_responses)
    /\ pc' = [pc EXCEPT ![c] = "ready"]
    /\ UNCHANGED << committed, pending, now, faultsLeft, session_state, ret >>

-----------------------------------------------------------------------------
(* Inputs *)

\* the organisations typed into the form
Organisations == [s1 |-> "Acme", s2 |-> "Beta"]

\* the ratings clicked in SpecForm
ClickRatings == {1, 5}

\* the completed forms Spec starts from
FormSamples == { << 1, 1, 1, 1, 1 >>, << 5, 4, 5, 4, 5 >> }

FilledSession(s, scores) ==
    [NewSession EXCEPT !.org = Organisations[s],
                       !.selected = [i \in Questions |-> Some(scores[i])]]

\* the scores of the direct calls in SpecRepository: totals 5, 8, 13, 18 and
\* 23, and two with a rating outside 1..5
ScoreSamples ==
    { << 1, 1, 1, 1, 1 >>, << 1, 1, 2, 2, 2 >>, << 3, 3, 3, 2, 2 >>,
      << 4, 4, 4, 3, 3 >>, << 5, 5, 5, 4, 4 >>,
      << 0, 1, 1, 1, 1 >>, << 5, 5, 5, 5, 6 >> }

DirectInputs ==
    { Arguments(Some(""), Some("Org"), None, None, None, scores) :
      scores \in ScoreSamples }

-----------------------------------------------------------------------------
(* Specifications *)

InitStore ==
    /\ committed = << >>
    /\ pending = << >>
    /\ now = 0
    /\ pc = [c \in Callers |-> "ready"]
    /\ call = [c \in Callers |-> NoCall]
    /\ ret = [c \in Callers |-> NotReturned]
    /\ analytics = NoAnalytics

\* two sessions that have filled in the form, the table created and empty
Init ==
    /\ InitStore
    /\ faultsLeft = MaxFaults
    /\ \E f \in [Sessions -> FormSamples] :
          session_state = [s \in Sessions |-> FilledSession(s, f[s])]

Step(s) ==
    \/ PressSubmit(s)
    \/ \E e \in 0..MaxElapsed : Insert(s, e)
    \/ Commit(s)
    \/ AutoRefresh(s)
    \/ Analytics(s)

FaultStep(s) ==
    \/ InsertFault(s)
    \/ CommitFault(s)
    \/ Rollback(s)
    \/ AnalyticsFault(s)

Next ==
    \/ \E s \in Sessions : Step(s)
    \/ \E s \in Sessions : FaultStep(s)
    \/ ViewAnalytics
    \/ ViewAnalyticsFault

\* the sessions of the survey, the results page and the analytics page, with a
\* store that may raise
Spec == Init /\ [][Next]_vars

\* as Init, with one form for each session
InitPair ==
    /\ InitStore
    /\ faultsLeft = MaxFaults
    /\ session_state = [s \in Sessions |->
          FilledSession(s, IF s = "s1" THEN << 1, 1, 1, 1, 1 >>
                                       ELSE << 5, 4, 5, 4, 5 >>)]

\* the two sessions and the analytics page with a store that may raise, from
\* one pair of completed forms
SpecPair == InitPair /\ [][Next]_vars

InitNoFault ==
    /\ InitStore
    /\ faultsLeft = 0
    /\ \E f \in [Sessions -> FormSamples] :
          session_state = [s \in Sessions |-> FilledSession(s, f[s])]

NextNoFault ==
    \/ \E s \in Sessions : Step(s)
    \/ ViewAnalytics

\* the same sessions with a store that never raises
SpecNoFault == InitNoFault /\ [][NextNoFault]_vars

InitForm ==
    /\ InitStore
    /\ faultsLeft = MaxFaults
    /\ session_state = [s \in Sessions |-> NewSession]

NextForm ==
    \/ \E o \in {"", Organisations["s1"]} : TypeOrganisation("s1", o)
    \/ \E i \in Questions, v \in ClickRatings : ClickRating("s1", i, v)
    \/ Step("s1")
    \/ FaultStep("s1")

\* one session from the empty form on
SpecForm == InitForm /\ [][NextForm]_vars

InitRepository ==
    /\ InitStore
    /\ faultsLeft = 0
    /\ session_state = [s \in Sessions |-> NewSession]

NextRepository ==
    \/ \E args \in DirectInputs : Len(committed) < MaxRows /\ DirectCall(args)
    \/ Insert(Api, 1)
    \/ Commit(Api)
    \/ Rollback(Api)
    \/ analytics = NoAnalytics /\ DirectAnalytics

\* direct calls of submit_dma_survey, a second apart, and after any of them
\* one of get_dma_survey_analytics
SpecRepository == InitRepository /\ [][NextRepository]_vars

InitClassify ==
    /\ committed = << >>
    /\ pending = << >>
    /\ now = 0
    /\ faultsLeft = 0
    /\ session_state = [s \in Sessions |-> NewSession]
    /\ pc = [c \in Callers |-> IF c = Api THEN "insert" ELSE "ready"]
    /\ \E scores \in [Questions -> Ratings] :
          call = [c \in Callers |->
                    IF c = Api
                    THEN NewCall(Arguments(Some(""), Some("Org"), None, None,
                                           None, scores), 0)
                    ELSE NoCall]
    /\ ret = [c \in Callers |-> NotReturned]
    /\ analytics = NoAnalytics

NextClassify == Scoring(Api)

\* the scoring step on every tuple of five ratings
SpecClassify == InitClassify /\ [][NextClassify]_vars

\* the values of an optional text argument: None, "" and a text
OptionalTexts == {None, Some(""), Some("x")}

\* calls with a non-empty organisation, five valid ratings and each optional
\* field absent or present
OptionalInputs ==
    { Arguments(name, Some("Org"), address, email, contact_number,
                << 3, 3, 3, 2, 2 >>) :
      name \in OptionalTexts, address \in OptionalTexts,
      email \in OptionalTexts, contact_number \in OptionalTexts }

InitOptional ==
    /\ committed = << >>
    /\ pending = << >>
    /\ now = 0
    /\ faultsLeft = 0
    /\ session_state = [s \in Sessions |-> NewSession]
    /\ pc = [c \in Callers |-> IF c = Api THEN "insert" ELSE "ready"]
    /\ \E args \in OptionalInputs :
          call = [c \in Callers |-> IF c = Api THEN NewCall(args, 0) ELSE NoCall]
    /\ ret = [c \in Callers |-> NotReturned]
    /\ analytics = NoAnalytics

NextOptional ==
    \/ Insert(Api, 1)
    \/ Commit(Api)
    \/ Rollback(Api)

\* one direct call of submit_dma_survey on the empty table, for every
\* combination of absent and present optional fields
SpecOptional == InitOptional /\ [][NextOptional]_vars

NextQueries ==
    \/ \E s \in Sessions : PressSubmit(s)
    \/ \E s \in Sessions, e \in 0..MaxElapsed : Insert(s, e)
    \/ \E s \in Sessions : Commit(s)
    \/ CallAnalytics(Api)
    \/ StatsQueryStep(Api)
    \/ MaturityQueryStep(Api)
    \/ AllQueryStep(Api)

\* the submissions of two sessions while get_dma_survey_analytics of the
\* analytics page makes its three queries, with a store that never raises
SpecQueries == InitNoFault /\ [][NextQueries]_vars

-----------------------------------------------------------------------------
(* The claims *)

\* the band table of the scoring rubric
BandTable ==
    { [lo |-> 5, hi |-> 5, level |-> Beginner],
      [lo |-> 6, hi |-> 10, level |-> Emerging],
      [lo |-> 11, hi |-> 15, level |-> Progressing],
      [lo |-> 16, hi |-> 20, level |-> Advanced],
      [lo |-> 21, hi |-> 25, level |-> Expert] }

BandOf(total) == {b.level : b \in {x \in BandTable : x.lo <= total /\ total <= x.hi}}

\* C1: for five ratings in 1..5 the scoring step yields total_score =
\* q1+q2+q3+q4+q5 and the level of the one band of the table that holds it.
C1_ScoringFollowsBandTable ==
    \A c \in Callers :
        (call[c].total_score # None /\ CheckOk(call[c].args.scores)) =>
            LET q == call[c].args.scores
                total == q[1] + q[2] + q[3] + q[4] + q[5]
            IN  /\ call[c].total_score = Some(total)
                /\ total \in 5..25
                /\ BandOf(total) = {call[c].maturity_level[1]}

C1_Witness ==
    /\ call[Api].args.scores = << 2, 2, 2, 2, 2 >>
    /\ call[Api].total_score = Some(10)
    /\ call[Api].maturity_level = Some(Emerging)

\* C2: every row of the table, after any sequence of accepted and rejected
\* submit_dma_survey calls, has its five scores in 1..5, total_score equal to
\* their sum and maturity_level the band of that total_score.
C2_RowsAreConsistent ==
    \A k \in DOMAIN View :
        LET r == View[k]
            q == r.question_scores
        IN  /\ \A i \in Questions : q[i] \in 1..5
            /\ r.total_score = q[1] + q[2] + q[3] + q[4] + q[5]
            /\ r.total_score \in 5..25
            /\ BandOf(r.total_score) = {r.maturity_level}

C2_Witness ==
    /\ ret[Api] = Failure
    /\ Len(committed) = 3
    /\ {committed[k].total_score : k \in DOMAIN committed} = {8, 13, 23}

\* C3: a submit_dma_survey call with a rating outside 1..5 returns
\* (None, None, None) and leaves the number of stored rows what it was.
C3_OutOfRangeRejected ==
    \A c \in Callers :
        (ret[c].returned /\ \E i \in Questions : call[c].args.scores[i] \notin 1..5)
            => /\ ret[c] = Failure
               /\ Len(committed) = call[c].rows_before
               /\ pending = << >>

C3_Witness ==
    /\ ret[Api] = Failure
    /\ call[Api].args.scores[5] = 6
    /\ call[Api].rows_before = 2
    /\ Len(committed) = 2

\* the table holds no row
StoreEmpty == committed = << >> /\ pending = << >>

\* C4: on an empty table get_dma_survey_analytics reports total_responses = 0
\* and every other statistic as a defined number, not None.
C4_EmptyStoreStatsDefined ==
    (analytics.who # "nobody" /\ analytics.ok /\ StoreEmpty) =>
        /\ analytics.stats.total_responses = 0
        /\ analytics.stats.avg_score # None
        /\ analytics.stats.min_score # None
        /\ analytics.stats.max_score # None
        /\ \A i \in Questions : analytics.stats.question_averages[i] # None

C6_FailureLeavesNoRow ==
    \A c \in Callers :
        (ret[c] = Failure /\ call[c].lastrowid # None) =>
            ~ \E k \in DOMAIN committed :
                /\ committed[k].survey_id = call[c].lastrowid[1]
                /\ committed[k].organisation = call[c].args.organisation[1]

\* C7: total_responses of every get_dma_survey_analytics call is the number
\* of rows committed so far.
C7_ReadsCountCommittedRows ==
    (analytics.who # "nobody" /\ analytics.ok) =>
        analytics.stats.total_responses = Len(committed)

\* the largest survey_id of the table
NewestId == NextRowId(View) - 1

\* C8: recent_responses has one entry per row, newest first by created_at,
\* and on the results page of the session whose row was inserted last that
\* row is the first entry, with the session's score and level.
C8_NewRowListedFirst ==
    (analytics.who \in Sessions /\ analytics.ok) =>
        LET recent == analytics.recent_responses
            ss == session_state[analytics.who]
        IN  /\ Len(recent) = Len(View)
            /\ \A i, j \in DOMAIN recent :
                  i < j => recent[i].created_at >= recent[j].created_at
            /\ ret[analytics.who].survey_id = Some(NewestId) =>
                  /\ Some(recent[1].organisation) = ss.user_org
                  /\ Some(recent[1].total_score) = ss.user_score
                  /\ Some(recent[1].maturity_level) = ss.user_level

\* the rows the connection of the last analytics call reads
RowsRead == IF analytics.who = Viewer THEN committed ELSE View

\* the rows whose maturity_level is l
RowsOfLevel(l) == {k \in DOMAIN RowsRead : RowsRead[k].maturity_level = l}

\* C9: maturity_distribution has exactly one entry for each level that some
\* row of the table has, with the number of rows of that level as its count,
\* no entry for a level without rows, and counts that never increase along
\* the list.
C9_DistributionCountsLevels ==
    (analytics.who # "nobody" /\ analytics.ok) =>
        LET dist == analytics.maturity_distribution
        IN  /\ \A l \in Levels :
                  Cardinality({i \in DOMAIN dist : dist[i].level = l}) =
                      IF RowsOfLevel(l) = {} THEN 0 ELSE 1
            /\ \A i \in DOMAIN dist :
                  /\ dist[i].level \in Levels
                  /\ dist[i].count = Cardinality(RowsOfLevel(dist[i].level))
            /\ \A i, j \in DOMAIN dist : i < j => dist[i].count >= dist[j].count

\* five responses with totals 5, 8, 13, 18 and 23: five entries of count 1
C9_Witness ==
    /\ analytics.who = Api /\ analytics.ok
    /\ Len(committed) = 5
    /\ {committed[k].total_score : k \in DOMAIN committed} = {5, 8, 13, 18, 23}
    /\ Len(analytics.maturity_distribution) = 5
    /\ \A i \in 1..5 : analytics.maturity_distribution[i].count = 1
    /\ {analytics.maturity_distribution[i].level : i \in 1..5} = Levels

FormComplete(s) ==
    /\ session_state[s].org # ""
    /\ \A i \in Questions : session_state[s].selected[i] # None

\* the rows of the table that session s submitted
RowsOf(s, view) ==
    {view[k] : k \in {j \in DOMAIN view : view[j].organisation = Organisations[s]}}

\* C10: a run of the survey form reaches submit_dma_survey only with a
\* non-empty organisation and a clicked rating for each question, which are
\* the ratings it submits; with the organisation empty or a question without
\* a click no run of the session starts a submission or writes a row.
C10_SubmitNeedsExplicitChoices ==
    [][\A s \in Sessions :
          /\ (pc[s] = "ready" /\ pc'[s] = "insert") =>
                /\ FormComplete(s)
                /\ call'[s].args.organisation = Some(session_state[s].org)
                /\ DOMAIN call'[s].args.scores = Questions
                /\ \A i \in Questions :
                      Some(call'[s].args.scores[i]) = session_state[s].selected[i]
          /\ (pc[s] = "ready" /\ OnSurveyPage(s) /\ ~FormComplete(s)) =>
                /\ pc'[s] = "ready"
                /\ call'[s] = call[s]
                /\ RowsOf(s, committed' \o pending') = RowsOf(s, View)]_vars

\* Submit pressed with four of the five questions answered: blocked
C10_Witness ==
    /\ session_state["s1"].st_error = "Please answer all questions"
    /\ session_state["s1"].org # ""
    /\ Cardinality({i \in Questions : session_state["s1"].selected[i] = None}) = 1
    /\ pc["s1"] = "ready"
    /\ View = << >>

\* a step of a script run up to its first call after it, or of the analytics
\* page: create_dma_survey_table and nothing else that writes
CreateTableStep == \A c \in Callers : pc[c] = "ready" \/ pc'[c] = pc[c]

\* a step in which a get_dma_survey_analytics call returns
AnalyticsStep == analytics' # NoAnalytics

\* C11: every step keeps each committed row where it is with all its fields,
\* so the number of committed rows never decreases; a step that is a
\* create_dma_survey_table on the existing table or an analytics read leaves
\* the rows of the table (those the connection reads) exactly as they were.
C11_RowsImmutable ==
    [][/\ Len(committed') >= Len(committed)
       /\ \A k \in DOMAIN committed : committed'[k] = committed[k]
       /\ (CreateTableStep \/ AnalyticsStep) =>
              committed' \o pending' = committed \o pending]_vars

\* a committed row has survived a failed submission of the other session, a
\* further create_dma_survey_table and an analytics read
C11_Witness ==
    /\ Len(committed) = 1
    /\ committed[1].organisation = "Acme"
    /\ ret["s2"] = Failure
    /\ analytics.who = "s1" /\ analytics.ok
    /\ analytics.stats.total_responses = 1

\* an optional argument that is None or empty
Absent(v) == v = None \/ v = Some("")

\* C12: a submit_dma_survey call with a non-empty organisation and five valid
\* ratings is accepted whichever of name, address, email and contact_number
\* are absent, and the row it writes has the empty string in each absent one.
C12_AbsentOptionalStoredEmpty ==
    (ret[Api].returned /\ call[Api].args.organisation \notin {None, Some("")}
                       /\ CheckOk(call[Api].args.scores)) =>
        /\ ret[Api].survey_id # None
        /\ \E k \in DOMAIN committed :
              /\ Some(committed[k].survey_id) = ret[Api].survey_id
              /\ Absent(call[Api].args.name) => committed[k].name = ""
              /\ Absent(call[Api].args.address) => committed[k].address = ""
              /\ Absent(call[Api].args.email) => committed[k].email = ""
              /\ Absent(call[Api].args.contact_number) =>
                    committed[k].contact_number = ""

\* C13: when a session's submit_dma_survey has returned (None, None, None)
\* the call made exactly one INSERT attempt, the run is over, the session is
\* on the survey page with survey_submitted false and user_score and
\* user_level unset and its form still filled in, so that Submit can be
\* pressed again; when get_dma_survey_analytics has returned the default dict
\* the run of that session is over and it stays on the results page, where
\* the next refresh reads again; no call makes a second INSERT attempt.
C13_FailureNotFatalNotRetried ==
    /\ \A s \in Sessions :
          ret[s] = Failure =>
              /\ call[s].attempts = 1
              /\ pc[s] = "ready"
              /\ OnSurveyPage(s)
              /\ ~session_state[s].survey_submitted
              /\ session_state[s].user_score = None
              /\ session_state[s].user_level = None
              /\ FormComplete(s)
    /\ \A c \in Callers : call[c].attempts <= 1
    /\ (analytics.who \in Sessions /\ ~analytics.ok) =>
          /\ pc[analytics.who] = "ready"
          /\ OnResultsPage(analytics.who)

\* s1's submission wrote row 1 and failed at its commit; the submission of s2
\* after it succeeded and persisted its row under the same survey_id
C13_Witness ==
    /\ ret["s1"] = Failure
    /\ call["s1"].lastrowid = Some(1)
    /\ session_state["s1"].st_error = "Error submitting survey. Please try again."
    /\ ret["s2"].survey_id = Some(1)
    /\ session_state["s2"].survey_submitted
    /\ Len(committed) = 1
    /\ committed[1].organisation = "Beta"
    /\ committed[1].survey_id = 1

\* the position in the table of the first row of level l
FirstRowOfLevel(l) == CHOOSE k \in RowsOfLevel(l) : \A j \in RowsOfLevel(l) : k <= j

\* C14: of two entries of maturity_distribution with the same count, the one
\* whose level was inserted first comes first.
C14_TiesInInsertionOrder ==
    (analytics.who # "nobody" /\ analytics.ok) =>
        LET dist == analytics.maturity_distribution
        IN  \A i, j \in DOMAIN dist :
                (i < j /\ dist[i].count = dist[j].count) =>
                    FirstRowOfLevel(dist[i].level) < FirstRowOfLevel(dist[j].level)

\* C15: a session is on the results page only after its submit_dma_survey
\* returned a survey_id, and the table then holds a committed row with that
\* survey_id whose total_score and maturity_level are the session's
\* user_score and user_level.
C15_SuccessImpliesPersistence ==
    \A s \in Sessions :
        OnResultsPage(s) =>
            /\ ret[s].returned /\ ret[s].survey_id # None
            /\ \E k \in DOMAIN committed :
                  /\ Some(committed[k].survey_id) = ret[s].survey_id
                  /\ Some(committed[k].total_score) = session_state[s].user_score
                  /\ Some(committed[k].maturity_level) = session_state[s].user_level

\* the sum of the counts of a maturity distribution
RECURSIVE SumCounts(_)
SumCounts(dist) ==
    IF dist = << >> THEN 0 ELSE Head(dist).count + SumCounts(Tail(dist))

\* C16: the dict of a successful get_dma_survey_analytics call has
\* total_responses equal to the sum of the counts of maturity_distribution
\* and to the number of entries of recent_responses, whatever other sessions
\* commit while the call makes its three queries.
C16_QueriesAgree ==
    (analytics.who # "nobody" /\ analytics.ok) =>
        /\ analytics.stats.total_responses = SumCounts(analytics.maturity_distribution)
        /\ analytics.stats.total_responses = Len(analytics.recent_responses)

====
